---- MODULE Spec2Model ----
(***************************************************************************)
(* The JWT trust boundary of the task-management microservices:           *)
(*   - the user service signs credentials (routes/auth.js, POST /login),  *)
(*   - the API gateway caches the public key (middleware/auth.js,         *)
(*     fetchPublicKey), verifies bearer tokens (verifyJWT), annotates     *)
(*     the request with x-user-* headers and proxies it (gateway app).    *)
(* Time is in milliseconds (Date.now()); JWT iat/exp are in seconds.      *)
(***************************************************************************)
EXTENDS Integers, Sequences, FiniteSets, Bags, TLC

\* ------------------------------------------------------------------ bounds
MaxTicks == 2        \* clock advances in one behaviour
MaxPending == 2      \* verifyJWT calls that may wait on a key fetch at once
MaxRegistered == 2   \* register calls that pass validation, in the whole run
MaxTeams == 2        \* teams in the store at once
MaxTasks == 3        \* tasks in the store at once
MaxEvents == 3       \* events published in the whole run
StartTime == 1000500 \* Date.now() when the gateway process starts

\* The clock jumps used: half the cache window (30 min), and half a second
\* short of the token lifetime (24 h), which takes a clock started at x.500 s
\* to the first whole second at which a credential issued at the start has
\* expired.
Deltas == {1800000, 86399500}

\* ------------------------------------------------------------------ constants
PUBLIC_KEY_CACHE_DURATION == 3600000
ExpiresInSeconds == 86400
NullTime == 0

Null == "null"
Undefined == "undefined"
PRIVATE_KEY == "keys/private.key"
PUBLIC_KEY == "keys/public.key"
KeyPairs == {<<PRIVATE_KEY, PUBLIC_KEY>>}

\* A module constant before its module has run, and the outcome of a
\* fs.readFileSync that threw (no such file).
Unloaded == "unloaded"
Threw == "ENOENT"

\* JavaScript truthiness of a key value (null, undefined and "" are falsy).
Truthy(v) == v \notin {Null, Undefined, ""}

\* ------------------------------------------------------------------ user store
Hash(password) == <<"bcrypt", password>>

\* The users array, in push order.
SeedUsers ==
  << [id |-> "u1", email |-> "john@example.com", password |-> Hash("password123"), role |-> "admin"],
     [id |-> "u2", email |-> "jane@example.com", password |-> Hash("password123"), role |-> "user"] >>

\* users.find(u => u.email === email): the index of the first match, 0 for undefined.
Find(us, email) ==
  IF \E i \in DOMAIN us : us[i].email = email
  THEN CHOOSE i \in DOMAIN us : us[i].email = email /\ \A j \in 1..(i - 1) : us[j].email # email
  ELSE 0

\* ------------------------------------------------------------------ team store
\* The teams array as routes/teams.js creates it.
SeedTeams == << [id |-> "1", name |-> "Development Team", members |-> <<"1", "2">>] >>

\* ------------------------------------------------------------------ task store
\* The tasks array as graphql-api/server.js creates it.
SeedTasks ==
  << [id |-> "1", title |-> "Setup Project", status |-> "completed"],
     [id |-> "2", title |-> "Design Database Schema", status |-> "in_progress"] >>
NoTask == [id |-> "", title |-> "", status |-> ""]

\* ------------------------------------------------------------------ tokens
NoPayload == [userId |-> "", email |-> "", role |-> "", iat |-> 0, exp |-> 0]
NoSig == [signer |-> "", digest |-> NoPayload]
NoToken == [wellFormed |-> FALSE, alg |-> "", payload |-> NoPayload, sig |-> NoSig]

\* Mutant: expiresIn is one hour.
JwtSignOneHour(claims, key, t) ==
  LET iat == t \div 1000
      payload == [userId |-> claims.userId, email |-> claims.email, role |-> claims.role,
                  iat |-> iat, exp |-> iat + 3600]
  IN [wellFormed |-> TRUE, alg |-> "RS256", payload |-> payload,
      sig |-> [signer |-> key, digest |-> payload]]

\* jwt.sign(claims, privateKey, {algorithm: 'RS256', expiresIn: '24h'}):
\* iat is the current time in whole seconds, exp = iat + 24 h.
JwtSign(claims, key, t) ==
  LET iat == t \div 1000
      payload == [userId |-> claims.userId, email |-> claims.email, role |-> claims.role,
                  iat |-> iat, exp |-> iat + ExpiresInSeconds]
  IN [wellFormed |-> TRUE, alg |-> "RS256", payload |-> payload,
      sig |-> [signer |-> key, digest |-> payload]]

\* What a client can do to a credential it holds.
TamperSignature(tok) == [tok EXCEPT !.sig.signer = "attacker.key"]
ForgeClaims(tok) == [tok EXCEPT !.payload.userId = "u1", !.payload.role = "admin"]
Garbage == [NoToken EXCEPT !.alg = "garbage"]

\* The signature check of jws.verify under the key given.
JwsVerify(tok, key) ==
  /\ <<tok.sig.signer, key>> \in KeyPairs
  /\ tok.sig.digest = tok.payload

VerifyOk(payload) == [ok |-> TRUE, name |-> "", decoded |-> payload]
VerifyErr(name) == [ok |-> FALSE, name |-> name, decoded |-> NoPayload]

\* Mutant: exp (seconds) compared with Date.now() (milliseconds).
JwtVerifyExpInMs(tok, key, t) ==
  IF ~tok.wellFormed THEN VerifyErr("JsonWebTokenError")
  ELSE IF ~Truthy(key) THEN VerifyErr("JsonWebTokenError")
  ELSE IF tok.alg \notin {"RS256"} THEN VerifyErr("JsonWebTokenError")
  ELSE IF ~JwsVerify(tok, key) THEN VerifyErr("JsonWebTokenError")
  ELSE IF t >= tok.payload.exp THEN VerifyErr("TokenExpiredError")
  ELSE VerifyOk(tok.payload)

\* Mutant: a credential is still accepted in the second equal to its exp.
JwtVerifyStrictExp(tok, key, t) ==
  IF ~tok.wellFormed THEN VerifyErr("JsonWebTokenError")
  ELSE IF ~Truthy(key) THEN VerifyErr("JsonWebTokenError")
  ELSE IF tok.alg \notin {"RS256"} THEN VerifyErr("JsonWebTokenError")
  ELSE IF ~JwsVerify(tok, key) THEN VerifyErr("JsonWebTokenError")
  ELSE IF (t \div 1000) > tok.payload.exp THEN VerifyErr("TokenExpiredError")
  ELSE VerifyOk(tok.payload)

\* Mutant: the expiry is ignored (ignoreExpiration).
JwtVerifyIgnoreExpiration(tok, key, t) ==
  IF ~tok.wellFormed THEN VerifyErr("JsonWebTokenError")
  ELSE IF ~Truthy(key) THEN VerifyErr("JsonWebTokenError")
  ELSE IF tok.alg \notin {"RS256"} THEN VerifyErr("JsonWebTokenError")
  ELSE IF ~JwsVerify(tok, key) THEN VerifyErr("JsonWebTokenError")
  ELSE VerifyOk(tok.payload)

\* Mutant: the token is decoded without its signature being checked (jwt.decode).
JwtVerifyDecodeOnly(tok, key, t) ==
  IF ~tok.wellFormed THEN VerifyErr("JsonWebTokenError")
  ELSE IF ~Truthy(key) THEN VerifyErr("JsonWebTokenError")
  ELSE IF tok.alg \notin {"RS256"} THEN VerifyErr("JsonWebTokenError")
  ELSE IF (t \div 1000) >= tok.payload.exp THEN VerifyErr("TokenExpiredError")
  ELSE VerifyOk(tok.payload)

\* jwt.verify(token, key, {algorithms: ['RS256']}) at clock time t (ms): the
\* token must decode, a key must be given, the algorithm must be allowed, the
\* signature must verify, and only then is exp compared with the clock.
JwtVerify(tok, key, t) ==
  IF ~tok.wellFormed THEN VerifyErr("JsonWebTokenError")
  ELSE IF ~Truthy(key) THEN VerifyErr("JsonWebTokenError")
  ELSE IF tok.alg \notin {"RS256"} THEN VerifyErr("JsonWebTokenError")
  ELSE IF ~JwsVerify(tok, key) THEN VerifyErr("JsonWebTokenError")
  ELSE IF (t \div 1000) >= tok.payload.exp THEN VerifyErr("TokenExpiredError")
  ELSE VerifyOk(tok.payload)

\* ------------------------------------------------------------------ requests
NoAuth == [scheme |-> "none", token |-> NoToken]
BasicAuth == [scheme |-> "Basic", token |-> NoToken]
Bearer(tok) == [scheme |-> "Bearer", token |-> tok]

\* Mutant: any Authorization header is taken for a bearer credential.
HasBearerAnyScheme(auth) == auth.scheme # "none"

\* authHeader && authHeader.startsWith('Bearer ')
HasBearer(auth) == auth.scheme = "Bearer"

\* One identity header: its value and who wrote it.
NoHeader == [val |-> Undefined, by |-> "nobody"]
CallerHeader(v) == [val |-> v, by |-> "caller"]
GatewayHeader(v) == [val |-> v, by |-> "gateway"]

NoIdentity == [id |-> NoHeader, email |-> NoHeader, role |-> NoHeader]
SpoofedIdentity ==
  [id |-> CallerHeader("u1"), email |-> CallerHeader("john@example.com"),
   role |-> CallerHeader("admin")]

NoReq == [method |-> "GET", path |-> <<>>, auth |-> NoAuth, xuser |-> NoIdentity]

\* ------------------------------------------------------------------ route table
PublicMounts ==
  << <<"api", "auth", "login">>, <<"api", "auth", "register">>,
     <<"api", "auth", "public-key">> >>

ProtectedMounts ==
  << [path |-> <<"api", "auth", "me">>, target |-> "user-service"],
     [path |-> <<"api", "users">>, target |-> "user-service"],
     [path |-> <<"api", "teams">>, target |-> "user-service"],
     [path |-> <<"graphql">>, target |-> "task-service"] >>

\* app.use(mount, ...) matches a path that starts with the mount's segments.
IsPrefix(m, p) == Len(m) <= Len(p) /\ SubSeq(p, 1, Len(m)) = m

IsHealth(p) == p = <<"health">>

\* Mutant: the mount of /api/auth/public-key is missing.
IsPublicWithoutKeyRoute(p) ==
  ~IsHealth(p) /\ \E i \in 1..2 : IsPrefix(PublicMounts[i], p)

IsPublic(p) == ~IsHealth(p) /\ \E i \in DOMAIN PublicMounts : IsPrefix(PublicMounts[i], p)
IsProtected(p) ==
  /\ ~IsHealth(p) /\ ~IsPublic(p)
  /\ \E i \in DOMAIN ProtectedMounts : IsPrefix(ProtectedMounts[i].path, p)
TargetOf(p) ==
  LET i == CHOOSE j \in DOMAIN ProtectedMounts :
             /\ IsPrefix(ProtectedMounts[j].path, p)
             /\ \A k \in 1..(j - 1) : ~IsPrefix(ProtectedMounts[k].path, p)
  IN ProtectedMounts[i].target

Methods == {"GET", "POST"}

Paths ==
  { <<"api", "auth", "login">>, <<"api", "auth", "register">>, <<"api", "auth", "public-key">>,
    <<"api", "auth", "me">>, <<"api", "users">>, <<"api", "teams">>, <<"graphql">>,
    <<"api", "users", "42">>, <<"health">>, <<"api", "tasks">> }

\* ------------------------------------------------------------------ responses
NoRes == [status |-> 0, message |-> "", to |-> "none", hdrs |-> NoIdentity]
ErrorRes(status, message) == [NoRes EXCEPT !.status = status, !.message = message]
Forwarded(target, hdrs) == [NoRes EXCEPT !.to = target, !.hdrs = hdrs]

\* What the handler that ran last did: op names the handler, fetch is how its
\* fetchPublicKey call ended ("hit", "ok", "failed", or "n/a" when it made none),
\* started is the `now` that call captured, key is what the call returned
\* ("threw" when it threw), token is the credential a login handed out.
NoLast == [op |-> "none", req |-> NoReq, fetch |-> "n/a", started |-> NullTime,
           key |-> "n/a", res |-> NoRes, token |-> NoToken]

\* ------------------------------------------------------------------ state
VARIABLES
  now,                   \* Date.now()
  ticks,                 \* clock advances so far
  publicKey,             \* middleware/auth.js: let publicKey
  publicKeyLastFetched,  \* middleware/auth.js: let publicKeyLastFetched
  pending,               \* bag of fetchPublicKey calls awaiting axios.get
  users,                 \* routes/auth.js: users
  hashing,               \* bag of register calls awaiting bcrypt.hash
  held,                  \* the credential the client holds (the last one issued)
  heldAt,                \* Date.now() when that credential was signed
  privateKey,            \* routes/auth.js: const privateKey
  teams,                 \* routes/teams.js: teams
  tasks,                 \* graphql-api/server.js: tasks
  pubsub,                \* the events published on pubsub, oldest first
  last                   \* the handler that completed last, its request and response

vars == <<now, ticks, publicKey, publicKeyLastFetched, pending, users, hashing, held, heldAt, last,
          privateKey, teams, tasks, pubsub>>

StartupCall == [caller |-> "startup", now |-> StartTime, req |-> NoReq]

\* After the gateway module has loaded: the cache is empty and the eager fetchPublicKey()
\* call is waiting for the key store's answer.
Init ==
  /\ now = StartTime
  /\ ticks = 0
  /\ publicKey = Null
  /\ publicKeyLastFetched = NullTime
  /\ pending = SetToBag({StartupCall})
  /\ users = SeedUsers
  /\ hashing = EmptyBag
  /\ held = NoToken
  /\ heldAt = NullTime
  /\ privateKey = PRIVATE_KEY
  /\ teams = SeedTeams
  /\ tasks = SeedTasks
  /\ pubsub = <<>>
  /\ last = NoLast

\* ------------------------------------------------------------------ key cache
\* Mutant: the age test is inverted.
CacheValidInverted(key, fetched, t) ==
  /\ Truthy(key)
  /\ fetched # NullTime
  /\ t - fetched > PUBLIC_KEY_CACHE_DURATION

\* fetchPublicKey, the test of line 13: the cached key is served when it is set
\* and younger than the cache duration.
CacheValid(key, fetched, t) ==
  /\ Truthy(key)
  /\ fetched # NullTime
  /\ t - fetched < PUBLIC_KEY_CACHE_DURATION

\* ------------------------------------------------------------------ verifyJWT
\* Mutant: a header the caller has set is left as it is.
AnnotateKeepsCaller(xuser, decoded) ==
  [id |-> IF xuser.id.by = "caller" THEN xuser.id ELSE GatewayHeader(decoded.userId),
   email |-> IF xuser.email.by = "caller" THEN xuser.email ELSE GatewayHeader(decoded.email),
   role |-> IF xuser.role.by = "caller" THEN xuser.role ELSE GatewayHeader(decoded.role)]

\* Mutant: x-user-role is not overwritten.
AnnotateWithoutRole(xuser, decoded) ==
  [xuser EXCEPT !.id = GatewayHeader(decoded.userId),
                !.email = GatewayHeader(decoded.email)]

\* req.headers['x-user-*'] = decoded.*: the three identity headers are overwritten.
Annotate(xuser, decoded) ==
  [xuser EXCEPT !.id = GatewayHeader(decoded.userId),
                !.email = GatewayHeader(decoded.email),
                !.role = GatewayHeader(decoded.role)]

\* The catch block of verifyJWT: the response for an error of the given name.
CatchResponse(name) ==
  IF name = "JsonWebTokenError" THEN ErrorRes(401, "Invalid token")
  ELSE IF name = "TokenExpiredError" THEN ErrorRes(401, "Token expired")
  ELSE ErrorRes(500, "Token verification failed")

\* verifyJWT from the return of fetchPublicKey on: key is the key returned, or
\* "threw" when fetchPublicKey threw; t is the time jwt.verify runs at.
VerifyAndForward(req, key, t) ==
  IF key = "threw" THEN CatchResponse("Error")
  ELSE LET v == JwtVerify(req.auth.token, key, t)
       IN IF v.ok THEN Forwarded(TargetOf(req.path), Annotate(req.xuser, v.decoded))
          ELSE CatchResponse(v.name)

\* ------------------------------------------------------------------ gateway actions
\* The body of the health response at time t.
HealthBody(t) ==
  [status |-> "healthy", timestamp |-> t,
   services |-> [user |-> "http://localhost:3001", task |-> "http://localhost:4000"]]

\* GET /health
Health(r) ==
  /\ r.method = "GET" /\ IsHealth(r.path)
  /\ last' = [NoLast EXCEPT !.op = "health", !.req = r, !.res = ErrorRes(200, "healthy")]
  /\ UNCHANGED <<tasks, pubsub, privateKey, teams, now, ticks, publicKey, publicKeyLastFetched, pending, users, hashing, held, heldAt>>

\* Mutant: no request is routed while a key fetch is outstanding.
RoutePublicAfterFetches(r) ==
  /\ IsPublic(r.path)
  /\ pending = EmptyBag
  /\ last' = [NoLast EXCEPT !.op = "public", !.req = r,
                            !.res = Forwarded("user-service", r.xuser)]
  /\ UNCHANGED <<tasks, pubsub, privateKey, teams, now, ticks, publicKey, publicKeyLastFetched, pending, users, hashing, held, heldAt>>

\* app.use('/api/auth/login' | 'register' | 'public-key', restApiProxy)
RoutePublic(r) ==
  /\ IsPublic(r.path)
  /\ last' = [NoLast EXCEPT !.op = "public", !.req = r,
                            !.res = Forwarded("user-service", r.xuser)]
  /\ UNCHANGED <<tasks, pubsub, privateKey, teams, now, ticks, publicKey, publicKeyLastFetched, pending, users, hashing, held, heldAt>>

\* Mutant: a request that app.get('*') does not take is handed to the REST proxy.
NotFoundResponseGetOnly(method) ==
  IF method = "GET" THEN ErrorRes(404, "Route not found")
  ELSE Forwarded("user-service", NoIdentity)

\* app.get('*', ...) answers an unmatched GET; express answers any other
\* unmatched method itself, with its own 404.
NotFoundResponse(method) ==
  IF method = "GET" THEN ErrorRes(404, "Route not found")
  ELSE ErrorRes(404, "Cannot <method> <path>")

\* No route took the request: app.get('/health') takes GET only, the mounts any method.
RouteNotFound(r) ==
  /\ ~(r.method = "GET" /\ IsHealth(r.path)) /\ ~IsPublic(r.path) /\ ~IsProtected(r.path)
  /\ last' = [NoLast EXCEPT !.op = "notfound", !.req = r,
                            !.res = NotFoundResponse(r.method)]
  /\ UNCHANGED <<tasks, pubsub, privateKey, teams, now, ticks, publicKey, publicKeyLastFetched, pending, users, hashing, held, heldAt>>

\* verifyJWT, lines 34-41: no bearer credential.
VerifyNoToken(r) ==
  /\ IsProtected(r.path)
  /\ ~HasBearer(r.auth)
  /\ last' = [NoLast EXCEPT !.op = "verifyJWT", !.req = r,
                            !.res = ErrorRes(401, "No token provided")]
  /\ UNCHANGED <<tasks, pubsub, privateKey, teams, now, ticks, publicKey, publicKeyLastFetched, pending, users, hashing, held, heldAt>>

\* verifyJWT with a bearer credential while fetchPublicKey serves the cache.
VerifyCached(r) ==
  /\ IsProtected(r.path)
  /\ HasBearer(r.auth)
  /\ CacheValid(publicKey, publicKeyLastFetched, now)
  /\ last' = [NoLast EXCEPT !.op = "verifyJWT", !.req = r, !.fetch = "hit",
                            !.started = now, !.key = publicKey,
                            !.res = VerifyAndForward(r, publicKey, now)]
  /\ UNCHANGED <<tasks, pubsub, privateKey, teams, now, ticks, publicKey, publicKeyLastFetched, pending, users, hashing, held, heldAt>>

\* verifyJWT with a bearer credential while the cache is empty or stale:
\* fetchPublicKey sends axios.get and the handler waits for the answer.
VerifyFetch(r, cap) ==
  /\ IsProtected(r.path)
  /\ HasBearer(r.auth)
  /\ ~CacheValid(publicKey, publicKeyLastFetched, now)
  /\ BagCardinality(pending) - CopiesIn(StartupCall, pending) < cap
  /\ pending' = pending (+) SetToBag({[caller |-> "verifyJWT", now |-> now, req |-> r]})
  /\ UNCHANGED <<tasks, pubsub, privateKey, teams, now, ticks, publicKey, publicKeyLastFetched, users, hashing, held, heldAt, last>>

\* optionalJWT with a bearer credential, from the return of fetchPublicKey on:
\* the identity headers are written when jwt.verify succeeds, and the catch
\* block goes on to next() with the request as it came.
SoftVerifyAndForward(req, key, t) ==
  IF key = "threw" THEN Forwarded("next", req.xuser)
  ELSE LET v == JwtVerify(req.auth.token, key, t)
       IN IF v.ok THEN Forwarded("next", Annotate(req.xuser, v.decoded))
          ELSE Forwarded("next", req.xuser)

\* optionalJWT without a bearer credential: next() at once.
SoftNoToken(r) ==
  /\ ~HasBearer(r.auth)
  /\ last' = [NoLast EXCEPT !.op = "optionalJWT", !.req = r,
                            !.res = Forwarded("next", r.xuser)]
  /\ UNCHANGED <<tasks, pubsub, privateKey, teams, now, ticks, publicKey, publicKeyLastFetched, pending, users, hashing, held, heldAt>>

\* optionalJWT with a bearer credential while the cached key is fresh.
SoftCached(r) ==
  /\ HasBearer(r.auth)
  /\ CacheValid(publicKey, publicKeyLastFetched, now)
  /\ last' = [NoLast EXCEPT !.op = "optionalJWT", !.req = r, !.fetch = "hit",
                            !.started = now, !.key = publicKey,
                            !.res = SoftVerifyAndForward(r, publicKey, now)]
  /\ UNCHANGED <<tasks, pubsub, privateKey, teams, now, ticks, publicKey, publicKeyLastFetched, pending, users, hashing, held, heldAt>>

\* optionalJWT with a bearer credential while the cache is empty or stale.
SoftFetch(r, cap) ==
  /\ HasBearer(r.auth)
  /\ ~CacheValid(publicKey, publicKeyLastFetched, now)
  /\ BagCardinality(pending) - CopiesIn(StartupCall, pending) < cap
  /\ pending' = pending (+) SetToBag({[caller |-> "optionalJWT", now |-> now, req |-> r]})
  /\ UNCHANGED <<tasks, pubsub, privateKey, teams, now, ticks, publicKey, publicKeyLastFetched, users, hashing, held, heldAt, last>>

\* The completion of a call once fetchPublicKey has returned key or thrown.
Completion(c, how, key) ==
  IF c.caller = "startup"
  THEN [NoLast EXCEPT !.op = "startup", !.fetch = how, !.started = c.now, !.key = key]
  ELSE IF c.caller = "optionalJWT"
  THEN [NoLast EXCEPT !.op = "optionalJWT", !.req = c.req, !.fetch = how,
                      !.started = c.now, !.key = key,
                      !.res = SoftVerifyAndForward(c.req, key, now)]
  ELSE [NoLast EXCEPT !.op = "verifyJWT", !.req = c.req, !.fetch = how,
                      !.started = c.now, !.key = key,
                      !.res = VerifyAndForward(c.req, key, now)]

\* axios.get resolves: lines 20-23 store response.data.publicKey and the `now`
\* the call captured, and the caller goes on with the key.
FetchOk(c, body) ==
  /\ BagIn(c, pending)
  /\ pending' = pending (-) SetToBag({c})
  /\ publicKey' = body
  /\ publicKeyLastFetched' = c.now
  /\ last' = Completion(c, "ok", body)
  /\ UNCHANGED <<tasks, pubsub, privateKey, teams, now, ticks, users, hashing, held, heldAt>>

\* Mutant: a failed fetch is recorded as a fetch.
FetchFailMarksFetched(c) ==
  /\ BagIn(c, pending)
  /\ pending' = pending (-) SetToBag({c})
  /\ publicKeyLastFetched' = c.now
  /\ last' = Completion(c, "failed", "threw")
  /\ UNCHANGED <<tasks, pubsub, privateKey, teams, now, ticks, publicKey, users, hashing, held, heldAt>>

\* Mutant: a failed fetch empties the cache.
FetchFailClearsKey(c) ==
  /\ BagIn(c, pending)
  /\ pending' = pending (-) SetToBag({c})
  /\ publicKey' = Null
  /\ publicKeyLastFetched' = NullTime
  /\ last' = Completion(c, "failed", "threw")
  /\ UNCHANGED <<tasks, pubsub, privateKey, teams, now, ticks, users, hashing, held, heldAt>>

\* axios.get rejects: lines 24-27 throw.
FetchFail(c) ==
  /\ BagIn(c, pending)
  /\ pending' = pending (-) SetToBag({c})
  /\ last' = Completion(c, "failed", "threw")
  /\ UNCHANGED <<tasks, pubsub, privateKey, teams, now, ticks, publicKey, publicKeyLastFetched, users, hashing, held, heldAt>>

\* ------------------------------------------------------------------ issuer
\* Mutant: the router is set up although reading the key threw.
IssuerLoadedWithoutKey == privateKey # Unloaded

\* The router of routes/auth.js exists once the module has loaded, which takes
\* fs.readFileSync of keys/private.key to return.
IssuerLoaded == privateKey \notin {Unloaded, Threw}

\* Mutant: the password is not compared.
LoginResponseAnyPassword(email, password, t) ==
  IF email = "" \/ password = ""
  THEN [NoLast EXCEPT !.op = "login", !.res = ErrorRes(400, "Missing credentials")]
  ELSE IF Find(users, email) = 0
  THEN [NoLast EXCEPT !.op = "login", !.res = ErrorRes(401, "Invalid email or password")]
  ELSE LET user == users[Find(users, email)]
       IN [NoLast EXCEPT !.op = "login", !.res = ErrorRes(200, "Login successful"),
                         !.token = JwtSign([userId |-> user.id, email |-> user.email,
                                            role |-> user.role], privateKey, t)]

\* POST /api/auth/login: 400 without email or password, 401 for an unknown
\* email or a wrong password, else a credential signed for the stored user.
LoginResponse(email, password, t) ==
  IF email = "" \/ password = ""
  THEN [NoLast EXCEPT !.op = "login", !.res = ErrorRes(400, "Missing credentials")]
  ELSE IF Find(users, email) = 0
  THEN [NoLast EXCEPT !.op = "login", !.res = ErrorRes(401, "Invalid email or password")]
  ELSE LET user == users[Find(users, email)]
       IN IF Hash(password) # user.password
          THEN [NoLast EXCEPT !.op = "login",
                              !.res = ErrorRes(401, "Invalid email or password")]
          ELSE [NoLast EXCEPT !.op = "login", !.res = ErrorRes(200, "Login successful"),
                              !.token = JwtSign([userId |-> user.id, email |-> user.email,
                                                 role |-> user.role], privateKey, t)]

Login(email, password) ==
  /\ IssuerLoaded
  /\ last' = LoginResponse(email, password, now)
  /\ held' = IF last'.token # NoToken THEN last'.token ELSE held
  /\ heldAt' = IF last'.token # NoToken THEN now ELSE heldAt
  /\ UNCHANGED <<tasks, pubsub, privateKey, teams, now, ticks, publicKey, publicKeyLastFetched, pending, users, hashing>>

\* uuidv4(): an id no stored user has.
Uuids == <<"uuid-1", "uuid-2", "uuid-3", "uuid-4">>
Uuid(us) == Uuids[Len(us) - Len(SeedUsers) + 1]

\* POST /api/auth/register, up to the first return: 400 when a field is
\* missing, 409 when users.find meets the email.
RegisterRejected(b) ==
  /\ IssuerLoaded
  /\ b.name = "" \/ b.email = "" \/ b.password = "" \/ Find(users, b.email) # 0
  /\ last' = [NoLast EXCEPT !.op = "register",
                !.res = IF b.name = "" \/ b.email = "" \/ b.password = ""
                        THEN ErrorRes(400, "Missing required fields")
                        ELSE ErrorRes(409, "Email already exists")]
  /\ UNCHANGED <<tasks, pubsub, privateKey, teams, now, ticks, publicKey, publicKeyLastFetched, pending, users, hashing, held, heldAt>>

\* POST /api/auth/register past both checks: the handler waits for bcrypt.hash.
RegisterStart(b, cap) ==
  /\ IssuerLoaded
  /\ b.name # "" /\ b.email # "" /\ b.password # "" /\ Find(users, b.email) = 0
  /\ Len(users) - Len(SeedUsers) + BagCardinality(hashing) < cap
  /\ hashing' = hashing (+) SetToBag({b})
  /\ UNCHANGED <<tasks, pubsub, privateKey, teams, now, ticks, publicKey, publicKeyLastFetched, pending, users, held, heldAt, last>>

\* bcrypt.hash resolves: the user is pushed and a credential signed for it.
RegisterFinish(b) ==
  /\ BagIn(b, hashing)
  /\ hashing' = hashing (-) SetToBag({b})
  /\ LET newUser == [id |-> Uuid(users), email |-> b.email,
                     password |-> Hash(b.password), role |-> b.role]
     IN /\ users' = Append(users, newUser)
        /\ held' = JwtSign([userId |-> newUser.id, email |-> newUser.email,
                            role |-> newUser.role], privateKey, now)
  /\ heldAt' = now
  /\ last' = [NoLast EXCEPT !.op = "register",
                            !.res = ErrorRes(201, "User registered successfully"),
                            !.token = held']
  /\ UNCHANGED <<tasks, pubsub, privateKey, teams, now, ticks, publicKey, publicKeyLastFetched, pending>>

\* Mutant: a missing key file is answered like a missing credential.
PublicKeyResponseUnauthorized(file) ==
  IF file = Threw THEN ErrorRes(401, "Unauthorized")
  ELSE ErrorRes(200, "publicKey")

\* GET /api/auth/public-key: the body { publicKey } when fs.readFileSync
\* returns, 500 when it throws.
PublicKeyResponse(file) ==
  IF file = Threw THEN ErrorRes(500, "Failed to retrieve public key")
  ELSE ErrorRes(200, "publicKey")

\* GET /api/auth/public-key with the key file readable (file is its content)
\* or not (file is Threw); last.key is the publicKey field of the body.
GetPublicKey(r, file) ==
  /\ IssuerLoaded
  /\ last' = [NoLast EXCEPT !.op = "public-key", !.req = r,
                            !.key = IF file = Threw THEN "n/a" ELSE file,
                            !.res = PublicKeyResponse(file)]
  /\ UNCHANGED <<tasks, pubsub, privateKey, teams, now, ticks, publicKey, publicKeyLastFetched, pending,
                 users, hashing, held, heldAt>>

\* The user service starts: routes/auth.js is loaded and reads keys/private.key
\* (file is its content, or Threw when it cannot be read).
LoadIssuer(file) ==
  /\ privateKey = Unloaded
  /\ privateKey' = file
  /\ UNCHANGED <<tasks, pubsub, teams, now, ticks, publicKey, publicKeyLastFetched, pending, users, hashing,
                 held, heldAt, last>>

\* ------------------------------------------------------------------ teams
\* teams.findIndex(t => t.id === id), counted from 1; 0 when there is none.
FindTeam(ts, id) ==
  IF \E i \in DOMAIN ts : ts[i].id = id
  THEN CHOOSE i \in DOMAIN ts : ts[i].id = id /\ \A j \in 1..(i - 1) : ts[j].id # id
  ELSE 0

\* uuidv4(): an id no stored team has.
TeamUuid(ts) ==
  Uuids[CHOOSE k \in DOMAIN Uuids :
          /\ FindTeam(ts, Uuids[k]) = 0
          /\ \A j \in 1..(k - 1) : FindTeam(ts, Uuids[j]) # 0]

\* members.includes(userId), and members.indexOf(userId) counted from 1.
Includes(members, userId) == \E k \in DOMAIN members : members[k] = userId
IndexOf(members, userId) ==
  IF Includes(members, userId)
  THEN CHOOSE k \in DOMAIN members :
         members[k] = userId /\ \A j \in 1..(k - 1) : members[j] # userId
  ELSE 0

\* array.splice(i, 1)
Splice(seq, i) == SubSeq(seq, 1, i - 1) \o SubSeq(seq, i + 1, Len(seq))

TeamRes(op, status, message) == [NoLast EXCEPT !.op = op, !.res = ErrorRes(status, message)]

\* POST /api/teams: the body's members (default []) are stored as given.
CreateTeam(b, cap) ==
  /\ Len(teams) < cap
  /\ IF b.name = ""
     THEN /\ last' = TeamRes("teams.create", 400, "Missing required fields")
          /\ teams' = teams
     ELSE /\ teams' = Append(teams, [id |-> TeamUuid(teams), name |-> b.name,
                                     members |-> IF b.hasMembers THEN b.members ELSE <<>>])
          /\ last' = TeamRes("teams.create", 201, "Team created successfully")
  /\ UNCHANGED <<tasks, pubsub, privateKey, now, ticks, publicKey, publicKeyLastFetched, pending, users,
                 hashing, held, heldAt>>

\* PUT /api/teams/:id: name and members of the body replace the stored ones
\* when they are truthy.
UpdateTeam(id, b) ==
  /\ LET i == FindTeam(teams, id)
     IN IF i = 0
        THEN /\ last' = TeamRes("teams.update", 404, "Team not found")
             /\ teams' = teams
        ELSE /\ teams' = [teams EXCEPT
                            ![i].name = IF b.name # "" THEN b.name ELSE @,
                            ![i].members = IF b.hasMembers THEN b.members ELSE @]
             /\ last' = TeamRes("teams.update", 200, "Team updated successfully")
  /\ UNCHANGED <<tasks, pubsub, privateKey, now, ticks, publicKey, publicKeyLastFetched, pending, users,
                 hashing, held, heldAt>>

\* DELETE /api/teams/:id
DeleteTeam(id) ==
  /\ LET i == FindTeam(teams, id)
     IN IF i = 0
        THEN /\ last' = TeamRes("teams.delete", 404, "Team not found")
             /\ teams' = teams
        ELSE /\ teams' = Splice(teams, i)
             /\ last' = TeamRes("teams.delete", 200, "Team deleted successfully")
  /\ UNCHANGED <<tasks, pubsub, privateKey, now, ticks, publicKey, publicKeyLastFetched, pending, users,
                 hashing, held, heldAt>>

\* POST /api/teams/:id/members
AddMember(id, userId) ==
  /\ LET i == FindTeam(teams, id)
     IN IF i = 0
        THEN /\ last' = TeamRes("teams.addMember", 404, "Team not found")
             /\ teams' = teams
        ELSE IF userId = ""
        THEN /\ last' = TeamRes("teams.addMember", 400, "Missing required fields")
             /\ teams' = teams
        ELSE IF Includes(teams[i].members, userId)
        THEN /\ last' = TeamRes("teams.addMember", 409, "User already in team")
             /\ teams' = teams
        ELSE /\ teams' = [teams EXCEPT ![i].members = Append(@, userId)]
             /\ last' = TeamRes("teams.addMember", 200, "Member added successfully")
  /\ UNCHANGED <<tasks, pubsub, privateKey, now, ticks, publicKey, publicKeyLastFetched, pending, users,
                 hashing, held, heldAt>>

\* DELETE /api/teams/:id/members/:userId
RemoveMember(id, userId) ==
  /\ LET i == FindTeam(teams, id)
     IN IF i = 0
        THEN /\ last' = TeamRes("teams.removeMember", 404, "Team not found")
             /\ teams' = teams
        ELSE IF IndexOf(teams[i].members, userId) = 0
        THEN /\ last' = TeamRes("teams.removeMember", 404, "Member not found")
             /\ teams' = teams
        ELSE /\ teams' = [teams EXCEPT ![i].members = Splice(@, IndexOf(@, userId))]
             /\ last' = TeamRes("teams.removeMember", 200, "Member removed successfully")
  /\ UNCHANGED <<tasks, pubsub, privateKey, now, ticks, publicKey, publicKeyLastFetched, pending, users,
                 hashing, held, heldAt>>

\* ------------------------------------------------------------------ tasks
\* tasks.findIndex(task => task.id === id), counted from 1; 0 when there is none.
FindTask(ts, id) ==
  IF \E i \in DOMAIN ts : ts[i].id = id
  THEN CHOOSE i \in DOMAIN ts : ts[i].id = id /\ \A j \in 1..(i - 1) : ts[j].id # id
  ELSE 0

\* uuidv4(): an id no stored task has.
TaskUuid(ts) ==
  Uuids[CHOOSE k \in DOMAIN Uuids :
          /\ FindTask(ts, Uuids[k]) = 0
          /\ \A j \in 1..(k - 1) : FindTask(ts, Uuids[j]) # 0]

\* pubsub.publish(trigger, payload): the payload is a task, or the id of a
\* deleted one.
Publish(ps, trigger, task, id) == Append(ps, [trigger |-> trigger, task |-> task, id |-> id])

TaskRes(op, message) == [NoLast EXCEPT !.op = op, !.res = ErrorRes(200, message)]

\* Mutation.createTask: status defaults to 'todo'.
CreateTask(a, cap, evs) ==
  /\ Len(tasks) < cap /\ Len(pubsub) < evs
  /\ LET newTask == [id |-> TaskUuid(tasks), title |-> a.title,
                     status |-> IF a.status = "" THEN "todo" ELSE a.status]
     IN /\ tasks' = Append(tasks, newTask)
        /\ pubsub' = Publish(pubsub, "TASK_ADDED", newTask, newTask.id)
  /\ last' = TaskRes("createTask", "newTask")
  /\ UNCHANGED <<privateKey, teams, now, ticks, publicKey, publicKeyLastFetched, pending,
                 users, hashing, held, heldAt>>

\* Mutation.updateTask: throws for an unknown id; title and status of the
\* arguments replace the stored ones when they are truthy.
UpdateTask(id, a, evs) ==
  /\ Len(pubsub) < evs
  /\ LET i == FindTask(tasks, id)
     IN IF i = 0
        THEN /\ last' = TaskRes("updateTask", "Task not found")
             /\ UNCHANGED <<tasks, pubsub>>
        ELSE LET updatedTask == [tasks[i] EXCEPT
                                   !.title = IF a.title # "" THEN a.title ELSE @,
                                   !.status = IF a.status # "" THEN a.status ELSE @]
             IN /\ tasks' = [tasks EXCEPT ![i] = updatedTask]
                /\ pubsub' = Publish(pubsub, "TASK_UPDATED", updatedTask, id)
                /\ last' = TaskRes("updateTask", "updatedTask")
  /\ UNCHANGED <<privateKey, teams, now, ticks, publicKey, publicKeyLastFetched, pending,
                 users, hashing, held, heldAt>>

\* Mutant: the event is published before the id is looked up.
DeleteTaskAlwaysPublishes(id, evs) ==
  /\ Len(pubsub) < evs
  /\ pubsub' = Publish(pubsub, "TASK_DELETED", NoTask, id)
  /\ LET i == FindTask(tasks, id)
     IN IF i = 0
        THEN /\ last' = TaskRes("deleteTask", "false")
             /\ UNCHANGED tasks
        ELSE /\ tasks' = Splice(tasks, i)
             /\ last' = TaskRes("deleteTask", "true")
  /\ UNCHANGED <<privateKey, teams, now, ticks, publicKey, publicKeyLastFetched, pending,
                 users, hashing, held, heldAt>>

\* Mutation.deleteTask: false for an unknown id.
DeleteTask(id, evs) ==
  /\ Len(pubsub) < evs
  /\ LET i == FindTask(tasks, id)
     IN IF i = 0
        THEN /\ last' = TaskRes("deleteTask", "false")
             /\ UNCHANGED <<tasks, pubsub>>
        ELSE /\ tasks' = Splice(tasks, i)
             /\ pubsub' = Publish(pubsub, "TASK_DELETED", NoTask, id)
             /\ last' = TaskRes("deleteTask", "true")
  /\ UNCHANGED <<privateKey, teams, now, ticks, publicKey, publicKeyLastFetched, pending,
                 users, hashing, held, heldAt>>

\* ------------------------------------------------------------------ clock
Advance(d) ==
  /\ ticks < MaxTicks
  /\ now' = now + d
  /\ ticks' = ticks + 1
  /\ last' = NoLast
  /\ UNCHANGED <<tasks, pubsub, privateKey, teams, publicKey, publicKeyLastFetched, pending, users, hashing, held, heldAt>>

\* ------------------------------------------------------------------ behaviours
Jane == <<"jane@example.com", "password123">>
WrongPassword == <<"jane@example.com", "wrong">>
UnknownEmail == <<"nobody@example.com", "password123">>
NoPassword == <<"john@example.com", "">>

\* The key cache under concurrent requests, with any answer of the key store:
\* requests to a public and to a protected route, with and without a bearer
\* credential.
CacheRequests ==
  [method : {"GET"}, path : { <<"api", "auth", "login">>, <<"api", "users">> },
   auth : {NoAuth, Bearer(held)}, xuser : {NoIdentity}]

Next ==
  \/ \E r \in CacheRequests : RoutePublic(r)
  \/ \E r \in CacheRequests : VerifyNoToken(r)
  \/ \E r \in CacheRequests : VerifyCached(r)
  \/ \E r \in CacheRequests : VerifyFetch(r, MaxPending)
  \/ \E c \in BagToSet(pending), body \in {PUBLIC_KEY, Undefined} : FetchOk(c, body)
  \/ \E c \in BagToSet(pending) : FetchFail(c)
  \/ \E d \in Deltas : Advance(d)

Spec == Init /\ [][Next]_vars

\* Time passes, whatever the key store does.
SpecFair == Spec /\ WF_vars(\E d \in Deltas : Advance(d))

\* Issue and verify: logins that succeed and that fail, and everything a client
\* can present on a protected route, one request at a time.
TokenRequests ==
  [method : {"GET"}, path : { <<"api", "users">> },
   auth : {NoAuth} \cup {Bearer(t) : t \in {held, TamperSignature(held), ForgeClaims(held), Garbage}},
   xuser : {NoIdentity}]

NextTokens ==
  \/ \E r \in TokenRequests : VerifyNoToken(r)
  \/ \E r \in TokenRequests : VerifyCached(r)
  \/ \E r \in TokenRequests : VerifyFetch(r, 1)
  \/ \E c \in BagToSet(pending), body \in {PUBLIC_KEY, Undefined} : FetchOk(c, body)
  \/ \E c \in BagToSet(pending) : FetchFail(c)
  \/ \E cr \in {Jane, WrongPassword, UnknownEmail, NoPassword} : Login(cr[1], cr[2])
  \/ \E d \in Deltas : Advance(d)

SpecTokens == Init /\ [][NextTokens]_vars

\* Routing and annotation: every path, with and without a credential and
\* caller-supplied identity headers, one request at a time, at one instant.
RouteRequests ==
  [method : {"GET"}, path : Paths, auth : {NoAuth, BasicAuth, Bearer(held)},
   xuser : {NoIdentity, SpoofedIdentity}]
  \cup [method : Methods \ {"GET"}, path : Paths, auth : {NoAuth, Bearer(held)},
         xuser : {NoIdentity}]

NextRoutes ==
  \/ \E r \in RouteRequests : Health(r)
  \/ \E r \in RouteRequests : RoutePublic(r)
  \/ \E r \in RouteRequests : RouteNotFound(r)
  \/ \E r \in RouteRequests : VerifyNoToken(r)
  \/ \E r \in RouteRequests : VerifyCached(r)
  \/ \E r \in RouteRequests : VerifyFetch(r, 1)
  \/ \E c \in BagToSet(pending) : FetchOk(c, PUBLIC_KEY)
  \/ \E c \in BagToSet(pending) : FetchFail(c)
  \/ Login(Jane[1], Jane[2])

SpecRoutes == Init /\ [][NextRoutes]_vars

\* The issuer and the gateway: credentials from register and from login,
\* presented at the times the clock reaches.
NewUser == [name |-> "New", email |-> "new@example.com", password |-> "pw", role |-> "user"]
NoName == [NewUser EXCEPT !.name = ""]
TakenEmail == [NewUser EXCEPT !.email = Jane[1]]

IssuerRequests ==
  [method : {"GET"}, path : { <<"api", "auth", "me">> }, auth : {Bearer(held)},
   xuser : {NoIdentity}]

NextIssuer ==
  \/ \E b \in {NoName, TakenEmail} : RegisterRejected(b)
  \/ \E b \in {NewUser} : RegisterStart(b, MaxRegistered)
  \/ \E b \in BagToSet(hashing) : RegisterFinish(b)
  \/ \E cr \in {Jane, <<NewUser.email, NewUser.password>>} : Login(cr[1], cr[2])
  \/ \E r \in IssuerRequests : VerifyCached(r)
  \/ \E r \in IssuerRequests : VerifyFetch(r, 1)
  \/ \E c \in BagToSet(pending) : FetchOk(c, PUBLIC_KEY)
  \/ \E d \in Deltas : Advance(d)

SpecIssuer == Init /\ [][NextIssuer]_vars

\* The user service on its own, from before its modules are loaded.
InitService ==
  /\ now = StartTime
  /\ ticks = 0
  /\ publicKey = Null
  /\ publicKeyLastFetched = NullTime
  /\ pending = SetToBag({StartupCall})
  /\ users = SeedUsers
  /\ hashing = EmptyBag
  /\ held = NoToken
  /\ heldAt = NullTime
  /\ privateKey = Unloaded
  /\ teams = SeedTeams
  /\ tasks = SeedTasks
  /\ pubsub = <<>>
  /\ last = NoLast

KeyRequests ==
  [method : {"GET"}, path : { <<"api", "auth", "public-key">> },
   auth : {NoAuth, Bearer(held)}, xuser : {NoIdentity}]
KeyFiles == {PUBLIC_KEY, Threw}
Credentials ==
  {Jane, WrongPassword, UnknownEmail, NoPassword, <<NewUser.email, NewUser.password>>}

NextService ==
  \/ \E file \in {PRIVATE_KEY, Threw} : LoadIssuer(file)
  \/ \E b \in {NoName, TakenEmail} : RegisterRejected(b)
  \/ \E b \in {NewUser} : RegisterStart(b, MaxRegistered)
  \/ \E b \in BagToSet(hashing) : RegisterFinish(b)
  \/ \E cr \in Credentials : Login(cr[1], cr[2])
  \/ \E r \in KeyRequests, file \in KeyFiles : GetPublicKey(r, file)
  \/ \E d \in Deltas : Advance(d)

SpecService == InitService /\ [][NextService]_vars

\* The team routes: bodies with and without members, with a user id twice.
TeamIds == {"1", Uuids[1], "none"}
UserIds == {"1", "2", "3", ""}
TeamBodies ==
  [name : {"", "Team"}, hasMembers : {FALSE}, members : { <<>> }]
  \cup [name : {"Team"}, hasMembers : {TRUE}, members : { <<>>, <<"3">>, <<"1", "1">> }]

NextTeams ==
  \/ \E b \in TeamBodies : CreateTeam(b, MaxTeams)
  \/ \E id \in TeamIds, b \in TeamBodies : UpdateTeam(id, b)
  \/ \E id \in TeamIds : DeleteTeam(id)
  \/ \E id \in TeamIds, userId \in UserIds : AddMember(id, userId)
  \/ \E id \in TeamIds, userId \in UserIds : RemoveMember(id, userId)

SpecTeams == Init /\ [][NextTeams]_vars

\* The task mutations, for known and unknown ids.
TaskIds == {"1", "2", Uuids[1], "none"}
TaskArgs == [title : {"", "Task"}, status : {"", "completed"}]

NextTasks ==
  \/ \E a \in TaskArgs : CreateTask(a, MaxTasks, MaxEvents)
  \/ \E id \in TaskIds, a \in TaskArgs : UpdateTask(id, a, MaxEvents)
  \/ \E id \in TaskIds : DeleteTask(id, MaxEvents)

SpecTasks == Init /\ [][NextTasks]_vars

\* Soft mode: optionalJWT in front of a route.
SoftRequests ==
  [method : {"GET"}, path : { <<"api", "tasks">> },
   auth : {NoAuth, Bearer(held), Bearer(TamperSignature(held))},
   xuser : {NoIdentity, SpoofedIdentity}]

NextSoft ==
  \/ \E r \in SoftRequests : SoftNoToken(r)
  \/ \E r \in SoftRequests : SoftCached(r)
  \/ \E r \in SoftRequests : SoftFetch(r, 1)
  \/ \E c \in BagToSet(pending), body \in {PUBLIC_KEY, Undefined} : FetchOk(c, body)
  \/ \E c \in BagToSet(pending) : FetchFail(c)
  \/ Login(Jane[1], Jane[2])
  \/ \E d \in Deltas : Advance(d)

SpecSoft == Init /\ [][NextSoft]_vars

\* Time passes, whatever the key store does.
SpecSoftFair == SpecSoft /\ WF_vars(\E d \in Deltas : Advance(d))

\* ------------------------------------------------------------------ properties
\* What the claims say of a request, in their own words.
Handled == last.op # "none"
Verified == last.op = "verifyJWT"
Forwards == last.res.to # "none"
PresentedToken == last.req.auth.token
WellSigned(tok) ==
  tok.wellFormed /\ tok.sig.signer = PRIVATE_KEY /\ tok.sig.digest = tok.payload
IdentityNames == {"id", "email", "role"}
JaneUser == SeedUsers[Find(SeedUsers, Jane[1])]
JaneIdentity ==
  [id |-> GatewayHeader(JaneUser.id), email |-> GatewayHeader(JaneUser.email),
   role |-> GatewayHeader(JaneUser.role)]

Unexpired(tok) == now < tok.payload.exp * 1000

\* C1 (as claimed): when a key is cached and the refresh that the lapsed
\* freshness window triggered fails, fetchPublicKey returns the cached key, so
\* that a request with a valid unexpired credential is verified and forwarded.
C1_StaleServing ==
  ( /\ Verified /\ last.fetch = "failed"
    /\ Truthy(publicKey)
    /\ last.started - publicKeyLastFetched >= 3600000
    /\ WellSigned(PresentedToken) /\ Unexpired(PresentedToken) )
  => (last.key = publicKey /\ Forwards)

\* C2 (as claimed): the fetches outstanding are fewer than the callers that
\* can wait at once (the startup call and MaxPending requests): some callers
\* share a fetch.
C2_Coalescing == BagCardinality(pending) <= MaxPending

\* C3 (as claimed): no forwarded request carries an identity header written by
\* the caller.
C3_NoCallerIdentity ==
  Forwards => \A h \in IdentityNames : last.res.hdrs[h].by # "caller"

\* C3 (amended): a request forwarded on a protected route carries the three
\* identity headers written by the gateway from the claims of the token.
C3_ProtectedIdentityFromGateway ==
  (Forwards /\ Verified) =>
     /\ \A h \in IdentityNames : last.res.hdrs[h].by = "gateway"
     /\ last.res.hdrs.id.val = PresentedToken.payload.userId
     /\ last.res.hdrs.email.val = PresentedToken.payload.email
     /\ last.res.hdrs.role.val = PresentedToken.payload.role

C3_Witness ==
  Forwards /\ Verified /\ last.req.xuser = SpoofedIdentity
  /\ last.req.path = <<"api", "auth", "me">>

\* C4 (as claimed): with nothing cached and no key obtained from the key store,
\* a protected request with a bearer credential (here a valid unexpired one)
\* gets a 5xx, never a 401, and is not forwarded.
C4_NoKeyIsServiceUnavailable ==
  ( /\ Verified /\ last.fetch \in {"ok", "failed"} /\ ~Truthy(publicKey)
    /\ WellSigned(PresentedToken) /\ Unexpired(PresentedToken) )
  => (last.res.status >= 500 /\ ~Forwards)

\* C5: a fetchPublicKey call made while the cache is populated and less than
\* one hour old returns the cached key, starts no fetch and leaves the cache alone.
C5_FreshnessIdempotence ==
  [][ \A r \in TokenRequests :
        ( /\ publicKey = PUBLIC_KEY /\ publicKeyLastFetched > 0
          /\ now - publicKeyLastFetched < 3600000
          /\ (VerifyCached(r) \/ VerifyFetch(r, 1)) )
        => /\ pending' = pending
           /\ last'.fetch = "hit" /\ last'.key = publicKey
           /\ publicKey' = publicKey /\ publicKeyLastFetched' = publicKeyLastFetched ]_vars

C5_Witness ==
  /\ Verified /\ last.fetch = "hit" /\ last.key = PUBLIC_KEY
  /\ now - publicKeyLastFetched = 1800000

\* The protected and the public routes as the claims list them.
C6_Routes == { <<"api", "auth", "me">>, <<"api", "users">>, <<"api", "teams">>, <<"graphql">> }
C7_Routes ==
  { <<"api", "auth", "login">>, <<"api", "auth", "register">>, <<"api", "auth", "public-key">> }

\* C6: a request to /api/auth/me, /api/users, /api/teams or /graphql without a
\* bearer credential is answered 401 'No token provided', is not forwarded and
\* never waits for a key fetch.
C6_NoCredentialRejected ==
  /\ ( /\ Handled
       /\ \E m \in C6_Routes : IsPrefix(m, last.req.path)
       /\ last.req.auth.scheme # "Bearer" )
     => last.res = ErrorRes(401, "No token provided")
  /\ \A c \in BagToSet(pending) : c.caller = "verifyJWT" => c.req.auth.scheme = "Bearer"

C6_Witness ==
  /\ Verified /\ last.req.auth = BasicAuth /\ last.req.path = <<"graphql">>
  /\ last.res.status = 401 /\ publicKey = PUBLIC_KEY

\* C7: a request to /api/auth/login, /api/auth/register or /api/auth/public-key
\* is forwarded to the user service as it came, by the proxy alone: no
\* fetchPublicKey call is made for it and it never waits for a key fetch.
C7_PublicForwarded ==
  /\ (Handled /\ last.req.path \in C7_Routes)
     => /\ last.op = "public" /\ last.fetch = "n/a" /\ last.key = "n/a"
        /\ last.res = Forwarded("user-service", last.req.xuser)
  /\ \A c \in BagToSet(pending) : c.req.path \notin C7_Routes

C7_Witness ==
  /\ last.op = "public" /\ last.req.path = <<"api", "auth", "public-key">>
  /\ last.req.auth = NoAuth /\ publicKey = Null /\ Forwards

\* C8: a credential the issuer signed (for Jane, the one identity that logs in),
\* presented before its expiry and verified with the public key, is forwarded
\* with x-user-id, x-user-email and x-user-role equal to the id, email and role
\* passed to the issuer.
C8_RoundTrip ==
  ( /\ Verified /\ last.req.auth.scheme = "Bearer"
    /\ WellSigned(PresentedToken) /\ Unexpired(PresentedToken)
    /\ last.key = PUBLIC_KEY )
  => last.res = Forwarded("user-service", JaneIdentity)

C8_Witness ==
  /\ Verified /\ held # NoToken /\ last.req.auth = Bearer(held)
  /\ now > held.payload.iat * 1000 + 1000
  /\ last.res = Forwarded("user-service", JaneIdentity)

\* C9 (as claimed): a credential whose expiry has passed is answered 401
\* 'Token expired' whether or not its signature is valid.
C9_ExpiredWhateverSignature ==
  ( /\ Verified /\ last.req.auth.scheme = "Bearer" /\ PresentedToken.wellFormed
    /\ now > PresentedToken.payload.exp * 1000
    /\ last.key = PUBLIC_KEY )
  => last.res = ErrorRes(401, "Token expired")

\* C9 (amended): a credential with a valid signature whose expiry has passed
\* is answered 401 'Token expired'; with an invalid signature it is answered
\* 401 'Invalid token'.
C9_ExpiredValidSignature ==
  ( /\ Verified /\ last.req.auth.scheme = "Bearer" /\ PresentedToken.wellFormed
    /\ now > PresentedToken.payload.exp * 1000
    /\ last.key = PUBLIC_KEY )
  => last.res = IF WellSigned(PresentedToken) THEN ErrorRes(401, "Token expired")
                ELSE ErrorRes(401, "Invalid token")

C9_Witness ==
  /\ Verified /\ WellSigned(PresentedToken)
  /\ now > PresentedToken.payload.exp * 1000
  /\ last.res = ErrorRes(401, "Token expired")

\* C10: a bearer token that is malformed or whose signature does not match its
\* body is never forwarded, and is answered 401 'Invalid token' whenever
\* fetchPublicKey returned and jwt.verify ran.
C10_TamperedRejected ==
  (Verified /\ last.req.auth.scheme = "Bearer" /\ ~WellSigned(PresentedToken))
  => /\ ~Forwards
     /\ (last.key # "threw" => last.res = ErrorRes(401, "Invalid token"))

C10_Witness ==
  /\ Verified /\ held # NoToken /\ PresentedToken = ForgeClaims(held)
  /\ last.key = PUBLIC_KEY /\ last.res = ErrorRes(401, "Invalid token")

\* The last handler was verifyJWT, given the public key, for the credential the
\* issuer handed out last.
VerifiedHeld ==
  /\ Verified /\ held # NoToken /\ last.req.auth = Bearer(held)
  /\ last.key = PUBLIC_KEY

\* C11 (as written): a credential from register or login expires 24 hours after
\* it was issued: it verifies at any time up to 24 hours after the issue, and
\* one second later it is rejected as expired.
C11_ExpiresAfter24Hours ==
  VerifiedHeld =>
    /\ now - heldAt <= 86400000 => Forwards
    /\ now - heldAt >= 86401000 => last.res = ErrorRes(401, "Token expired")

\* C11 (amended): expiresAt is the issue time cut to whole seconds plus 24
\* hours: the credential verifies up to 24 hours less one second after the
\* issue, and is rejected as expired from 24 hours after the issue on.
C11_ExpiresAfter24HoursInSeconds ==
  VerifiedHeld =>
    /\ held.payload.exp = (heldAt \div 1000) + 86400
    /\ now - heldAt <= 86399000 => Forwards
    /\ now - heldAt >= 86400000 => last.res = ErrorRes(401, "Token expired")

C11_Witness ==
  /\ VerifiedHeld /\ held.payload.userId = Uuids[1]
  /\ now - heldAt >= 86400000
  /\ last.res = ErrorRes(401, "Token expired")

\* The last handler was verifyJWT, given the public key, for a credential
\* whose signature is the issuer's.
VerifiedWellSigned ==
  /\ Verified /\ last.req.auth.scheme = "Bearer" /\ WellSigned(PresentedToken)
  /\ last.key = PUBLIC_KEY

\* C20 (as written): a credential is rejected as expired exactly when its
\* expiresAt is strictly before the current time; at a time equal to its
\* expiresAt it is not rejected.
C20_ExpiredStrictlyBefore ==
  VerifiedWellSigned =>
    (last.res = ErrorRes(401, "Token expired") <=> PresentedToken.payload.exp * 1000 < now)

\* C20 (amended): a credential is rejected as expired exactly when the current
\* time in whole seconds has reached its expiresAt; in the second equal to its
\* expiresAt it is rejected.
C20_ExpiredFromExpiresAt ==
  VerifiedWellSigned =>
    /\ last.res = ErrorRes(401, "Token expired") <=> (now \div 1000) >= PresentedToken.payload.exp
    /\ last.res # ErrorRes(401, "Token expired") => Forwards

C20_Witness ==
  /\ VerifiedWellSigned
  /\ (now \div 1000) = PresentedToken.payload.exp
  /\ last.res = ErrorRes(401, "Token expired")

\* An optionalJWT call, or a verifyJWT call, is waiting for the key store.
SoftWaiting == \E c \in BagToSet(pending) : c.caller = "optionalJWT"
HardWaiting == \E c \in BagToSet(pending) : c.caller = "verifyJWT"
SoftDone == last.op = "optionalJWT"

\* C12: optionalJWT never blocks forwarding: it sends no error response, and
\* every request it takes is eventually forwarded (next is called).
C12_SoftEventuallyForwarded ==
  /\ [](SoftDone => (Forwards /\ last.res.status = 0))
  /\ [](SoftWaiting => <>(SoftDone /\ Forwards))

\* jwt.verify succeeded for the request optionalJWT handled last.
SoftVerified ==
  /\ HasBearer(last.req.auth) /\ last.key \notin {"n/a", "threw"}
  /\ JwtVerify(PresentedToken, last.key, now).ok

\* C13: when verification does not succeed, the request optionalJWT forwards
\* carries no x-user-id, x-user-email or x-user-role header, whatever the
\* caller sent.
C13_SoftNoIdentityUnlessVerified ==
  (SoftDone /\ Forwards /\ ~SoftVerified) =>
    \A h \in IdentityNames : last.res.hdrs[h] = NoHeader

\* C14: a key fetch is bounded in time (a few seconds): once the clock has
\* moved on by one of the jumps of the model, each far longer than the bound,
\* no verifyJWT call is still waiting for the key store.
C14_BoundedFetch ==
  \A c \in BagToSet(pending) : c.caller = "verifyJWT" => now - c.now < 1800000

\* C15: while a verifyJWT call waits for the key store, a request to a public
\* route can be forwarded and a protected request without a credential can be
\* rejected, the first call still waiting.
C15_StalledFetchDelaysNobody ==
  HardWaiting =>
    /\ ENABLED (\E r \in CacheRequests :
                  RoutePublic(r) /\ pending' = pending /\ last'.res.to = "user-service")
    /\ ENABLED (\E r \in CacheRequests :
                  VerifyNoToken(r) /\ pending' = pending
                  /\ last'.res = ErrorRes(401, "No token provided"))

C15_Witness ==
  /\ HardWaiting /\ now > StartTime
  /\ last.op = "public" /\ Forwards

\* C16: a protected request ends in exactly one outcome, forwarded or one
\* error response, never both and never neither.
C16_ExactlyOneOutcome ==
  /\ [](Verified => (Forwards <=> last.res.status = 0))
  /\ [](HardWaiting => <>(~HardWaiting))

\* The last step was the gateway answering or forwarding a request.
Routed == last.op \in {"health", "public", "notfound", "verifyJWT"}

C17_Routes == C6_Routes \cup C7_Routes \cup { <<"health">> }

\* C17: a request whose path matches no public route, no protected route and
\* not the health surface is answered 404 and is never forwarded, whatever
\* its method; no key fetch is started for it.
C17_UnmatchedNotFound ==
  /\ (Routed /\ ~\E m \in C17_Routes : IsPrefix(m, last.req.path)) =>
        (last.op = "notfound" /\ last.res.status = 404 /\ ~Forwards)
  /\ \A c \in BagToSet(pending) :
        c.caller = "verifyJWT" => \E m \in C17_Routes : IsPrefix(m, c.req.path)

C17_Witness ==
  /\ last.req.method = "POST" /\ last.req.path = <<"api", "tasks">>
  /\ last.req.auth.scheme = "Bearer" /\ held # NoToken
  /\ last.res.status = 404 /\ ~Forwards

\* C18: one eager fetch is made at startup; when it fails the gateway goes on
\* with an empty cache, serves requests, and the next protected request with a
\* bearer credential starts a fetch.
C18_StartupFetch ==
  /\ \A c \in BagToSet(pending) : c.caller = "startup" => c = StartupCall
  /\ CopiesIn(StartupCall, pending) <= 1
  /\ last.op = "startup" => CopiesIn(StartupCall, pending) = 0
  /\ (last.op = "startup" /\ last.fetch = "failed" /\ publicKey = Null) =>
        /\ publicKeyLastFetched = NullTime
        /\ ENABLED (\E r \in CacheRequests : RoutePublic(r))
        /\ BagCardinality(pending) < MaxPending =>
              ENABLED (\E r \in CacheRequests :
                         VerifyFetch(r, MaxPending) /\ BagCardinality(pending') =
                                                         BagCardinality(pending) + 1)

C18_Witness ==
  /\ last.op = "startup" /\ last.fetch = "failed"
  /\ publicKey = Null /\ pending = EmptyBag

\* C19: publicKey and publicKeyLastFetched are either both unset or both set.
C19_Wholesale == Truthy(publicKey) <=> publicKeyLastFetched # NullTime

\* C21: GET /api/auth/public-key changes nothing in the service; without the
\* key file it answers with a 500-class error, and with it it answers 200 with
\* the key, with or without a credential on the request.
C21_PublicKeyRead ==
  [][\A r \in KeyRequests, file \in KeyFiles :
       GetPublicKey(r, file) =>
         /\ UNCHANGED <<tasks, pubsub, users, hashing, privateKey, held, heldAt, teams>>
         /\ file = Threw => (last'.res.status >= 500 /\ last'.res.status < 600)
         /\ file # Threw => (last'.res.status = 200 /\ last'.key = file)]_vars

C21_Witness ==
  /\ last.op = "public-key" /\ last.req.auth = NoAuth
  /\ last.res.status = 500 /\ now > StartTime

\* C23: when the private key cannot be read at startup the service never
\* serves register or login and no credential is ever issued.
C23_NoKeyNoService ==
  privateKey \in {Unloaded, Threw} =>
    /\ held = NoToken /\ last.token = NoToken
    /\ last.op \notin {"register", "login", "public-key"}
    /\ users = SeedUsers /\ hashing = EmptyBag
    /\ ~ENABLED (\E cr \in Credentials : Login(cr[1], cr[2]))
    /\ ~ENABLED (\E b \in {NoName, TakenEmail, NewUser} :
                   RegisterRejected(b) \/ RegisterStart(b, MaxRegistered))

C23_Witness == privateKey = Threw /\ now > StartTime

\* The stored users an email and a password authenticate.
Authenticated(email, password) ==
  {i \in DOMAIN users : users[i].email = email /\ users[i].password = Hash(password)}

C29_UniqueEmails ==
  \A i, j \in DOMAIN users : users[i].email = users[j].email => i = j

\* C22: the health response says whether a verification key is cached, and
\* its age, as the key cache has them.
C22_HealthReportsKey ==
  last.op = "health" =>
    /\ {"keyCached", "keyAge"} \subseteq DOMAIN HealthBody(now)
    /\ HealthBody(now).keyCached = Truthy(publicKey)
    /\ Truthy(publicKey) => HealthBody(now).keyAge = now - publicKeyLastFetched

\* C24: verifyJWT forwards only a request whose token verified, and what it
\* answers or forwards, identity headers included, is the same whatever
\* x-user-* headers the caller sent with the token.
C24_HeadersFromTokenAlone ==
  (Verified /\ HasBearer(last.req.auth)) =>
    /\ Forwards => JwtVerify(PresentedToken, last.key, now).ok
    /\ \A x \in {NoIdentity, SpoofedIdentity} :
         VerifyAndForward([last.req EXCEPT !.xuser = x], last.key, now) = last.res

C24_Witness ==
  /\ Verified /\ Forwards /\ last.req.xuser = SpoofedIdentity
  /\ last.req.path = <<"api", "users", "42">>
  /\ last.res.hdrs = JaneIdentity

\* C25: publicKeyLastFetched never decreases.
C25_TimestampMonotone ==
  [][publicKeyLastFetched' >= publicKeyLastFetched]_vars

\* C26: fetchPublicKey returns a usable key or throws, and an answer of the
\* key store never leaves the cache without a usable key.
C26_KeyOrThrow ==
  last.fetch \in {"hit", "ok"} => (Truthy(last.key) /\ Truthy(publicKey))

\* C27: publicKey and publicKeyLastFetched change only when a fetch succeeds:
\* a call served from the cache and a call whose fetch fails leave both as
\* they were.
C27_CacheFrame ==
  [][/\ \A r \in CacheRequests :
          VerifyCached(r) => UNCHANGED <<tasks, pubsub, publicKey, publicKeyLastFetched>>
     /\ \A c \in BagToSet(pending) :
          FetchFail(c) => UNCHANGED <<tasks, pubsub, publicKey, publicKeyLastFetched>>
     /\ (publicKey' # publicKey \/ publicKeyLastFetched' # publicKeyLastFetched)
          => last'.fetch = "ok"]_vars

C27_Witness ==
  /\ Verified /\ last.fetch = "failed"
  /\ publicKey = PUBLIC_KEY /\ now - publicKeyLastFetched >= PUBLIC_KEY_CACHE_DURATION

\* C30: no team's members list holds the same user id twice.
C30_MembersUnique ==
  \A i \in DOMAIN teams :
    \A a, b \in DOMAIN teams[i].members :
      teams[i].members[a] = teams[i].members[b] => a = b

\* The one event a step has published: pubsub has grown by exactly it.
PublishedOne(trigger) ==
  /\ Len(pubsub') = Len(pubsub) + 1
  /\ SubSeq(pubsub', 1, Len(pubsub)) = pubsub
  /\ pubsub'[Len(pubsub')].trigger = trigger

\* C31: a successful createTask, updateTask or deleteTask publishes exactly one
\* TASK_ADDED, TASK_UPDATED or TASK_DELETED event, which tells of the task
\* list as the mutation has left it; an updateTask or deleteTask for an
\* unknown id publishes nothing and leaves the task list as it was.
C31_OneEventPerMutation ==
  [][/\ \A a \in TaskArgs :
          CreateTask(a, MaxTasks, MaxEvents) =>
            /\ PublishedOne("TASK_ADDED")
            /\ Len(tasks') = Len(tasks) + 1
            /\ tasks'[Len(tasks')] = pubsub'[Len(pubsub')].task
            /\ FindTask(tasks, pubsub'[Len(pubsub')].task.id) = 0
     /\ \A id \in TaskIds, a \in TaskArgs :
          UpdateTask(id, a, MaxEvents) =>
            IF FindTask(tasks, id) = 0
            THEN /\ pubsub' = pubsub /\ tasks' = tasks
                 /\ last'.res.message = "Task not found"
            ELSE /\ PublishedOne("TASK_UPDATED")
                 /\ tasks'[FindTask(tasks, id)] = pubsub'[Len(pubsub')].task
                 /\ pubsub'[Len(pubsub')].task.id = id
     /\ \A id \in TaskIds :
          DeleteTask(id, MaxEvents) =>
            IF FindTask(tasks, id) = 0
            THEN /\ pubsub' = pubsub /\ tasks' = tasks
                 /\ last'.res.message = "false"
            ELSE /\ PublishedOne("TASK_DELETED")
                 /\ pubsub'[Len(pubsub')].id = id
                 /\ FindTask(tasks', id) = 0
                 /\ Len(tasks') = Len(tasks) - 1]_vars

C31_Witness ==
  /\ last.op = "deleteTask" /\ last.res.message = "false"
  /\ Len(pubsub) = 2
  /\ pubsub[1].trigger = "TASK_ADDED" /\ pubsub[2].trigger = "TASK_UPDATED"
  /\ pubsub[2].task.id = pubsub[1].task.id
====
